---- MODULE Spec2Model ----
(***************************************************************************)
(* Model of wireguard-client/test-stun.py: a one-shot STUN Binding Request *)
(* probe.  The program counter pc walks through the statements of          *)
(* __main__ and test_stun; the network, the resolver and the kernel are    *)
(* the environment and are chosen nondeterministically.                    *)
(***************************************************************************)
EXTENDS Integers, Sequences, FiniteSets, TLC

VARIABLES
    pc,            \* position in the program
    argv,          \* command line: [n |-> number of arguments, host, port]
    host,          \* host passed to test_stun
    port,          \* port passed to test_stun (an integer), NoInt before parsing
    sock,          \* "none" | "open" | "closed"
    closeCalls,    \* number of sock.close() calls executed
    timeout,       \* receive timeout set on the socket, NoInt before settimeout
    request,       \* bytes built by create_stun_binding_request, NoBytes before
    txid,          \* the 12 bytes os.urandom returned, NoBytes before
    sendCalls,     \* number of sock.sendto calls
    sentDatagrams, \* number of datagrams handed to the network
    recvCalls,     \* number of sock.recvfrom calls
    response,      \* datagram returned by recvfrom, NoBytes if none
    msg_type,      \* local of test_stun, NoInt while unassigned
    msg_length,    \* local of test_stun, NoInt while unassigned
    magic_cookie,  \* local of test_stun, NoInt while unassigned
    exc,           \* exception in flight: "none" or its class name
    raisedAt,      \* history: [at, class] of every exception raised, in order
    retval,        \* value returned by test_stun: "unset" | "True" | "False"
    success,       \* __main__'s success: "unset" | "True" | "False"
    exitCode,      \* process exit status, NoInt while running
    out            \* lines printed so far (tags)

vars == <<pc, argv, host, port, sock, closeCalls, timeout, request, txid,
          sendCalls, sentDatagrams, recvCalls, response, msg_type, msg_length,
          magic_cookie, exc, raisedAt, retval, success, exitCode, out>>

----------------------------------------------------------------------------
(* Bounds of the model *)

NumTxnIds == 3      \* number of distinct transaction IDs os.urandom may give
MaxTail   == 1      \* bytes a response may carry after the 20-byte header
MaxCount  == 3      \* cap of the call counters

(* Program constants *)

BINDING_REQUEST  == 1            \* 0x0001
BINDING_SUCCESS  == 257          \* 0x0101
BINDING_ERROR    == 273          \* 0x0111
MAGIC_COOKIE     == 554869826    \* 0x2112A442
HEADER_LEN       == 20
TXID_LEN         == 12
RECV_TIMEOUT     == 5
DEFAULT_PORT     == 3478
MAX_PORT         == 65535

DEFAULT_HOST == "mail.s0me.uk"

NoInt   == -1
NoBytes == <<-1>>

----------------------------------------------------------------------------
(* struct.pack / struct.unpack, network byte order *)

PackH(v) == << (v \div 256) % 256, v % 256 >>

(* the 32-bit field packed without the '!' prefix on a little-endian host *)
PackI_LittleEndian(v) ==
    << v % 256, (v \div 256) % 256, (v \div 65536) % 256,
       (v \div 16777216) % 256 >>

PackI(v) == << (v \div 16777216) % 256, (v \div 65536) % 256,
               (v \div 256) % 256, v % 256 >>

UnpackH(b) == b[1] * 256 + b[2]

UnpackI(b) == b[1] * 16777216 + b[2] * 65536 + b[3] * 256 + b[4]

(* Python slice b[lo:hi] of a bytes object (0-based, hi exclusive, clipped) *)
Slice(b, lo, hi) ==
    LET h == IF hi > Len(b) THEN Len(b) ELSE hi
    IN  IF lo >= h THEN << >> ELSE SubSeq(b, lo + 1, h)

(* create_stun_binding_request, with the result of os.urandom(12) as input *)
create_stun_binding_request(transaction_id_bytes) ==
    LET message == PackH(BINDING_REQUEST) \o PackH(0) \o PackI(MAGIC_COOKIE)
    IN  message \o transaction_id_bytes

----------------------------------------------------------------------------
(* int(sys.argv[2]): optional sign followed by decimal digits *)

Digits == <<"0", "1", "2", "3", "4", "5", "6", "7", "8", "9">>

IsDigit(c) == \E d \in 1..10 : Digits[d] = c

DigitVal(c) == (CHOOSE d \in 1..10 : Digits[d] = c) - 1

Unsigned(s) == IF Len(s) >= 1 /\ s[1] \in {"+", "-"} THEN Tail(s) ELSE s

IsIntLiteral(s) ==
    /\ Len(Unsigned(s)) >= 1
    /\ \A i \in 1..Len(Unsigned(s)) : IsDigit(Unsigned(s)[i])

RECURSIVE DecValue(_)
DecValue(s) ==
    IF s = << >> THEN 0
    ELSE 10 * DecValue(SubSeq(s, 1, Len(s) - 1)) + DigitVal(s[Len(s)])

ParseInt(s) ==
    IF Len(s) >= 1 /\ s[1] = "-" THEN 0 - DecValue(Unsigned(s))
    ELSE DecValue(Unsigned(s))

----------------------------------------------------------------------------
(* Inputs *)

Hosts == {DEFAULT_HOST, "stun.example.org", "no.such.host.invalid"}

(* whether the resolver finds an address for the host *)
Resolves(h) == h # "no.such.host.invalid"

PortArgs ==
    { <<"3", "4", "7", "8">>, <<"0">>, <<"7", "0", "0", "0", "0">>,
      <<"-", "1">>, <<"x">>, << >> }

Argvs ==
    { [n |-> 0, host |-> "", port |-> << >>] }
    \cup { [n |-> 1, host |-> h, port |-> << >>] : h \in Hosts }
    \cup { [n |-> 2, host |-> h, port |-> p] : h \in Hosts, p \in PortArgs }

(* os.urandom(12): the k-th of NumTxnIds possible results *)
TxnId(k) == [i \in 1..TXID_LEN |-> (k * 37 + i * 11) % 256]

TxnIds == { TxnId(k) : k \in 1..NumTxnIds }

TypeBytes == { <<1, 1>>, <<1, 17>>, <<0, 1>>, <<17, 1>> }

LenBytes == { <<0, 0>>, <<0, 12>> }

CookieBytes == { <<33, 18, 164, 66>>, <<66, 164, 18, 33>>, <<0, 0, 0, 0>> }

RespTxnIds == TxnIds \cup { [i \in 1..TXID_LEN |-> 0] }

Tails == { [i \in 1..n |-> 0] : n \in 0..MaxTail }

Headers ==
    { t \o l \o c \o x :
        t \in TypeBytes, l \in LenBytes, c \in CookieBytes, x \in RespTxnIds }

ShortLens == {0, 1, 2, 4, 8, 19}

(* datagrams the network may deliver *)
Responses ==
    { h \o tl : h \in Headers, tl \in Tails }
    \cup { Slice(h, 0, n) : h \in Headers, n \in ShortLens }

Raised(stmt, class) == [at |-> stmt, class |-> class]

Bump(c) == IF c < MaxCount THEN c + 1 ELSE c

TypeOK ==
    /\ pc \in {"main", "socket", "settimeout", "build", "sendto", "recvfrom",
               "classify", "timeout", "finally", "except", "return", "exit",
               "done"}
    /\ argv \in Argvs
    /\ sock \in {"none", "open", "closed"}
    /\ retval \in {"unset", "True", "False"}
    /\ success \in {"unset", "True", "False"}
    /\ exitCode \in {NoInt, 0, 1}
    /\ sendCalls \in 0..MaxCount
    /\ recvCalls \in 0..MaxCount

----------------------------------------------------------------------------
Init ==
    /\ pc = "main"
    /\ argv \in Argvs
    /\ host = ""
    /\ port = NoInt
    /\ sock = "none"
    /\ closeCalls = 0
    /\ timeout = NoInt
    /\ request = NoBytes
    /\ txid = NoBytes
    /\ sendCalls = 0
    /\ sentDatagrams = 0
    /\ recvCalls = 0
    /\ response = NoBytes
    /\ msg_type = NoInt
    /\ msg_length = NoInt
    /\ magic_cookie = NoInt
    /\ exc = "none"
    /\ raisedAt = << >>
    /\ retval = "unset"
    /\ success = "unset"
    /\ exitCode = NoInt
    /\ out = << >>

(* __main__, lines 100-103: read host and port, call test_stun.  A port   *)
(* argument int() rejects raises ValueError outside any handler: the       *)
(* interpreter prints the traceback and exits with status 1.               *)
Main ==
    /\ pc = "main"
    /\ host' = IF argv.n > 0 THEN argv.host ELSE DEFAULT_HOST
    /\ IF argv.n > 1 /\ ~IsIntLiteral(argv.port)
       THEN /\ pc' = "done"
            /\ exc' = "ValueError"
            /\ raisedAt' = Append(raisedAt, Raised("int", "ValueError"))
            /\ exitCode' = 1
            /\ out' = Append(out, "Traceback")
            /\ port' = port
       ELSE /\ pc' = "socket"
            /\ port' = IF argv.n > 1 THEN ParseInt(argv.port) ELSE DEFAULT_PORT
            /\ UNCHANGED <<exc, raisedAt, exitCode, out>>
    /\ UNCHANGED <<argv, sock, closeCalls, timeout, request, txid, sendCalls,
                   sentDatagrams, recvCalls, response, msg_type, msg_length,
                   magic_cookie, retval, success>>

(* line 36: socket.socket(AF_INET, SOCK_DGRAM); the kernel may refuse *)
SocketCreate ==
    /\ pc = "socket"
    /\ \E ok \in BOOLEAN :
         IF ok
         THEN /\ sock' = "open"
              /\ pc' = "settimeout"
              /\ UNCHANGED <<exc, raisedAt>>
         ELSE /\ sock' = sock
              /\ exc' = "OSError"
              /\ raisedAt' = Append(raisedAt, Raised("socket", "OSError"))
              /\ pc' = "except"
    /\ UNCHANGED <<argv, host, port, closeCalls, timeout, request, txid,
                   sendCalls, sentDatagrams, recvCalls, response, msg_type,
                   msg_length, magic_cookie, retval, success, exitCode, out>>

(* line 37: sock.settimeout(5); with a valid constant and a socket just   *)
(* opened the call is taken not to raise                                   *)
SetTimeout ==
    /\ pc = "settimeout"
    /\ timeout' = RECV_TIMEOUT
    /\ pc' = "build"
    /\ UNCHANGED <<argv, host, port, sock, closeCalls, request, txid,
                   sendCalls, sentDatagrams, recvCalls, response, msg_type,
                   msg_length, magic_cookie, exc, raisedAt, retval, success,
                   exitCode, out>>

(* lines 40-43: build the request and announce it *)
BuildRequest ==
    /\ pc = "build"
    /\ \E t \in TxnIds :
         /\ txid' = t
         /\ request' = create_stun_binding_request(t)
    /\ out' = out \o <<"Testing STUN", "Sending STUN Binding Request">>
    /\ pc' = "sendto"
    /\ UNCHANGED <<argv, host, port, sock, closeCalls, timeout, sendCalls,
                   sentDatagrams, recvCalls, response, msg_type, msg_length,
                   magic_cookie, exc, raisedAt, retval, success, exitCode>>

(* a failed send is swallowed and the probe waits for a response anyway *)
SendTo_IgnoreError ==
    /\ pc = "sendto"
    /\ sendCalls' = Bump(sendCalls)
    /\ \E netok \in BOOLEAN :
         LET e == IF ~Resolves(host) THEN "gaierror"
                  ELSE IF port < 0 \/ port > MAX_PORT THEN "OverflowError"
                  ELSE IF ~netok THEN "OSError"
                  ELSE "none"
         IN  IF e = "none"
             THEN /\ sentDatagrams' = Bump(sentDatagrams)
                  /\ out' = Append(out, "STUN Binding Request sent")
                  /\ raisedAt' = raisedAt
             ELSE /\ raisedAt' = Append(raisedAt, Raised("sendto", e))
                  /\ UNCHANGED <<sentDatagrams, out>>
    /\ pc' = "recvfrom"
    /\ UNCHANGED <<argv, host, port, sock, closeCalls, timeout, request, txid,
                   recvCalls, response, msg_type, msg_length, magic_cookie,
                   exc, retval, success, exitCode>>

(* lines 46-47: sock.sendto(request, (host, port)).  The address is        *)
(* resolved first (socket.gaierror), then the port range is checked        *)
(* (OverflowError), then the kernel sends or fails (OSError).  The call is *)
(* in the outer try only, so an exception goes to the handler of line 95.  *)
SendTo ==
    /\ pc = "sendto"
    /\ sendCalls' = Bump(sendCalls)
    /\ \E netok \in BOOLEAN :
         LET e == IF ~Resolves(host) THEN "gaierror"
                  ELSE IF port < 0 \/ port > MAX_PORT THEN "OverflowError"
                  ELSE IF ~netok THEN "OSError"
                  ELSE "none"
         IN  IF e = "none"
             THEN /\ sentDatagrams' = Bump(sentDatagrams)
                  /\ out' = Append(out, "STUN Binding Request sent")
                  /\ pc' = "recvfrom"
                  /\ UNCHANGED <<exc, raisedAt>>
             ELSE /\ exc' = e
                  /\ raisedAt' = Append(raisedAt, Raised("sendto", e))
                  /\ pc' = "except"
                  /\ UNCHANGED <<sentDatagrams, out>>
    /\ UNCHANGED <<argv, host, port, sock, closeCalls, timeout, request, txid,
                   recvCalls, response, msg_type, msg_length, magic_cookie,
                   retval, success, exitCode>>

(* the receive is repeated after a timeout instead of giving up *)
RecvFrom_RetryOnTimeout ==
    /\ pc = "recvfrom"
    /\ recvCalls' = Bump(recvCalls)
    /\ \/ \E r \in Responses :
            /\ response' = r
            /\ out' = out \o <<"STUN Binding Response received",
                               "Response length">>
            /\ pc' = "classify"
            /\ UNCHANGED <<exc, raisedAt>>
       \/ /\ pc' = "recvfrom"
          /\ UNCHANGED <<exc, raisedAt, response, out>>
       \/ /\ exc' = "OSError"
          /\ raisedAt' = Append(raisedAt, Raised("recvfrom", "OSError"))
          /\ pc' = "finally"
          /\ UNCHANGED <<response, out>>
    /\ UNCHANGED <<argv, host, port, sock, closeCalls, timeout, request, txid,
                   sendCalls, sentDatagrams, msg_type, msg_length,
                   magic_cookie, retval, success, exitCode>>

(* lines 50-53: sock.recvfrom(1024) blocks until a datagram arrives, the   *)
(* timeout elapses (socket.timeout) or the kernel reports an error.        *)
RecvFrom ==
    /\ pc = "recvfrom"
    /\ recvCalls' = Bump(recvCalls)
    /\ \/ \E r \in Responses :
            /\ response' = r
            /\ out' = out \o <<"STUN Binding Response received",
                               "Response length">>
            /\ pc' = "classify"
            /\ UNCHANGED <<exc, raisedAt>>
       \/ /\ exc' = "timeout"
          /\ raisedAt' = Append(raisedAt, Raised("recvfrom", "timeout"))
          /\ pc' = "timeout"
          /\ UNCHANGED <<response, out>>
       \/ /\ exc' = "OSError"
          /\ raisedAt' = Append(raisedAt, Raised("recvfrom", "OSError"))
          /\ pc' = "finally"
          /\ UNCHANGED <<response, out>>
    /\ UNCHANGED <<argv, host, port, sock, closeCalls, timeout, request, txid,
                   sendCalls, sentDatagrams, msg_type, msg_length,
                   magic_cookie, retval, success, exitCode>>

(* the length test off by one: a 19-byte response passes *)
HasHeader_OffByOne(resp) == Len(resp) >= HEADER_LEN - 1

(* line 56: the response is long enough to hold a STUN header *)
HasHeader(resp) == Len(resp) >= HEADER_LEN

(* the verdict also requires a valid magic cookie *)
Succeeded_CookieChecked(resp) ==
    /\ UnpackH(Slice(resp, 0, 2)) = BINDING_SUCCESS
    /\ UnpackI(Slice(resp, 4, 8)) = MAGIC_COOKIE

(* the verdict also requires the request's transaction ID to be echoed *)
Succeeded_EchoChecked(resp) ==
    /\ UnpackH(Slice(resp, 0, 2)) = BINDING_SUCCESS
    /\ Slice(resp, 8, 20) = Slice(request, 8, 20)

(* lines 57 and 76: the verdict on a response that holds a header *)
Succeeded(resp) == UnpackH(Slice(resp, 0, 2)) = BINDING_SUCCESS

(* lines 56-85 as a function of the response: the locals assigned, the     *)
(* lines printed and the value returned                                    *)
ClassifyResponse(resp) ==
    IF HasHeader(resp)
    THEN LET mt == UnpackH(Slice(resp, 0, 2))
             ml == UnpackH(Slice(resp, 2, 4))
             mc == UnpackI(Slice(resp, 4, 8))
         IN  [ msg_type     |-> mt,
               msg_length   |-> ml,
               magic_cookie |-> mc,
               lines |-> << IF mt = BINDING_SUCCESS
                              THEN "Message Type (Binding Success Response)"
                              ELSE IF mt = BINDING_ERROR
                              THEN "Message Type (Binding Error Response)"
                              ELSE "Message Type (Unknown)",
                            "Message Length",
                            IF mc = MAGIC_COOKIE
                              THEN "Magic Cookie (valid)"
                              ELSE "Magic Cookie (invalid!)",
                            IF mt = BINDING_SUCCESS
                              THEN "SUCCESS"
                              ELSE "unexpected message type" >>,
               succeeded |-> Succeeded(resp) ]
    ELSE [ msg_type     |-> NoInt,
           msg_length   |-> NoInt,
           magic_cookie |-> NoInt,
           lines        |-> << "Response too short" >>,
           succeeded    |-> FALSE ]

(* lines 56-85: parse the response and return the verdict; the return      *)
(* passes through the finally clause of line 93                            *)
Classify ==
    /\ pc = "classify"
    /\ LET c == ClassifyResponse(response)
       IN  /\ msg_type' = c.msg_type
           /\ msg_length' = c.msg_length
           /\ magic_cookie' = c.magic_cookie
           /\ out' = out \o c.lines
           /\ retval' = IF c.succeeded THEN "True" ELSE "False"
    /\ pc' = "finally"
    /\ UNCHANGED <<argv, host, port, sock, closeCalls, timeout, request, txid,
                   sendCalls, sentDatagrams, recvCalls, response, exc,
                   raisedAt, success, exitCode>>

(* the timeout handler sends the request again instead of returning *)
TimeoutHandler_Retry ==
    /\ pc = "timeout"
    /\ exc' = "none"
    /\ out' = Append(out, "No response received (timeout)")
    /\ pc' = "sendto"
    /\ UNCHANGED <<argv, host, port, sock, closeCalls, timeout, request, txid,
                   sendCalls, sentDatagrams, recvCalls, response, msg_type,
                   msg_length, magic_cookie, raisedAt, retval, success,
                   exitCode>>

(* lines 86-92: except socket.timeout *)
TimeoutHandler ==
    /\ pc = "timeout"
    /\ exc' = "none"
    /\ out' = Append(out, "No response received (timeout)")
    /\ retval' = "False"
    /\ pc' = "finally"
    /\ UNCHANGED <<argv, host, port, sock, closeCalls, timeout, request, txid,
                   sendCalls, sentDatagrams, recvCalls, response, msg_type,
                   msg_length, magic_cookie, raisedAt, success, exitCode>>

(* lines 93-94: finally: sock.close(); then the pending return completes   *)
(* or the pending exception travels on to the handler of line 95.  The    *)
(* close of a datagram socket is taken not to raise.                       *)
Finally ==
    /\ pc = "finally"
    /\ sock' = "closed"
    /\ closeCalls' = closeCalls + 1
    /\ pc' = IF exc # "none" THEN "except" ELSE "return"
    /\ UNCHANGED <<argv, host, port, timeout, request, txid, sendCalls,
                   sentDatagrams, recvCalls, response, msg_type, msg_length,
                   magic_cookie, exc, raisedAt, retval, success, exitCode,
                   out>>

(* the handler catches OSError only: any other exception leaves test_stun *)
(* and ends the process with a traceback                                   *)
ExceptHandler_OSErrorOnly ==
    /\ pc = "except"
    /\ IF exc \in {"OSError", "gaierror", "timeout"}
       THEN /\ out' = Append(out, "Error")
            /\ exc' = "none"
            /\ retval' = "False"
            /\ pc' = "return"
            /\ exitCode' = exitCode
       ELSE /\ out' = Append(out, "Traceback")
            /\ exitCode' = 1
            /\ pc' = "done"
            /\ UNCHANGED <<exc, retval>>
    /\ UNCHANGED <<argv, host, port, sock, closeCalls, timeout, request, txid,
                   sendCalls, sentDatagrams, recvCalls, response, msg_type,
                   msg_length, magic_cookie, raisedAt, success>>

(* lines 95-97: except Exception as e *)
ExceptHandler ==
    /\ pc = "except"
    /\ out' = Append(out, "Error")
    /\ exc' = "none"
    /\ retval' = "False"
    /\ pc' = "return"
    /\ UNCHANGED <<argv, host, port, sock, closeCalls, timeout, request, txid,
                   sendCalls, sentDatagrams, recvCalls, response, msg_type,
                   msg_length, magic_cookie, raisedAt, success, exitCode>>

(* line 103: test_stun returns to __main__.  A socket object never closed  *)
(* loses its last reference here; whether its finalizer has run by now is  *)
(* left to the interpreter.                                                *)
Return ==
    /\ pc = "return"
    /\ success' = retval
    /\ sock' \in (IF sock = "open" THEN {"open", "closed"} ELSE {sock})
    /\ pc' = "exit"
    /\ UNCHANGED <<argv, host, port, closeCalls, timeout, request, txid,
                   sendCalls, sentDatagrams, recvCalls, response, msg_type,
                   msg_length, magic_cookie, exc, raisedAt, retval, exitCode,
                   out>>

(* the boolean is handed to sys.exit as it is: True exits with status 1 *)
Exit_RawStatus ==
    /\ pc = "exit"
    /\ exitCode' = IF success = "True" THEN 1 ELSE 0
    /\ pc' = "done"
    /\ UNCHANGED <<argv, host, port, sock, closeCalls, timeout, request, txid,
                   sendCalls, sentDatagrams, recvCalls, response, msg_type,
                   msg_length, magic_cookie, exc, raisedAt, retval, success,
                   out>>

(* line 104: sys.exit(0 if success else 1) *)
Exit ==
    /\ pc = "exit"
    /\ exitCode' = IF success = "True" THEN 0 ELSE 1
    /\ pc' = "done"
    /\ UNCHANGED <<argv, host, port, sock, closeCalls, timeout, request, txid,
                   sendCalls, sentDatagrams, recvCalls, response, msg_type,
                   msg_length, magic_cookie, exc, raisedAt, retval, success,
                   out>>

Next ==
    \/ Main
    \/ SocketCreate
    \/ SetTimeout
    \/ BuildRequest
    \/ SendTo
    \/ RecvFrom
    \/ Classify
    \/ TimeoutHandler
    \/ Finally
    \/ ExceptHandler
    \/ Return
    \/ Exit

Spec == Init /\ [][Next]_vars

(* The interpreter runs one thread and always executes its next statement; *)
(* the blocking receive returns with a datagram, a timeout or an error.    *)
FairSpec == Spec /\ WF_vars(Next)

----------------------------------------------------------------------------
(* Properties *)

Got == response # NoBytes

(* test_stun has returned to __main__ *)
Returned == pc \in {"exit", "done"}

(* the bytes of the response say: at least a header, type 0x0101 *)
GoodDatagram ==
    /\ Got
    /\ Len(response) >= 20
    /\ response[1] = 1
    /\ response[2] = 1

RaisedIn(stmt) == \E i \in 1..Len(raisedAt) : raisedAt[i].at = stmt

TimedOut ==
    \E i \in 1..Len(raisedAt) :
        raisedAt[i] = Raised("recvfrom", "timeout")

Last(s) == s[Len(s)]

(* C1: the exit code is 0 exactly when a datagram of at least 20 bytes     *)
(* whose first two bytes are 01 01 was received, and 1 on every failure    *)
(* (timeout, short response, other message type, transport error).         *)
C1_ExitCodeContract ==
    pc = "done" =>
        /\ exitCode \in {0, 1}
        /\ (exitCode = 0) <=> GoodDatagram
        /\ raisedAt # << >> => exitCode = 1
        /\ (Got /\ ~GoodDatagram) => exitCode = 1

C1_Witness == pc = "done" /\ exitCode = 0 /\ GoodDatagram

(* C2: once the socket was opened it is closed when test_stun has          *)
(* returned, whatever the exit path.                                       *)
C2_SocketClosedOnReturn == Returned => sock # "open"

(* C3: a timeout, a transport error at socket creation, send or receive,   *)
(* or a short response makes test_stun return False with a diagnostic      *)
(* printed and no exception left in flight.                                *)
C3_ErrorsRecovered ==
    (pc = "done" /\ ( RaisedIn("socket") \/ RaisedIn("sendto")
                      \/ RaisedIn("recvfrom")
                      \/ (Got /\ Len(response) < 20) )) =>
        /\ exc = "none"
        /\ retval = "False"
        /\ success = "False"
        /\ Last(out) \in {"Error", "No response received (timeout)",
                          "Response too short"}

C3_Witness ==
    /\ pc = "done"
    /\ raisedAt = << Raised("sendto", "OverflowError") >>
    /\ retval = "False"
    /\ Last(out) = "Error"

(* the response with bytes 4-7 replaced *)
WithCookie(resp, c) == Slice(resp, 0, 4) \o c \o Slice(resp, 8, Len(resp))

(* the response with bytes 2-3 and 8-19 replaced *)
WithLenAndTxn(resp, l, x) ==
    Slice(resp, 0, 2) \o l \o Slice(resp, 4, 8) \o x
        \o Slice(resp, 20, Len(resp))

Classified == Got /\ Len(response) >= 20 /\ retval # "unset"

(* C4: for a response of at least 20 bytes the verdict is the one every    *)
(* response that differs from it in the magic cookie only would get; type  *)
(* 0x0111 gives False and type 0x0101 gives True whatever the cookie.      *)
C4_CookieIrrelevant ==
    Classified =>
        /\ \A c \in CookieBytes :
             ClassifyResponse(WithCookie(response, c)).succeeded
                 <=> (retval = "True")
        /\ (response[1] = 1 /\ response[2] = 17) => retval = "False"
        /\ (response[1] = 1 /\ response[2] = 1) => retval = "True"

C4_Witness ==
    /\ Classified
    /\ response[1] = 1 /\ response[2] = 1
    /\ Slice(response, 4, 8) # <<33, 18, 164, 66>>
    /\ retval = "True"

(* C5: a response shorter than 20 bytes gives False, raises nothing and    *)
(* leaves message type, message length and magic cookie unextracted.       *)
C5_ShortResponse ==
    (Got /\ Len(response) < 20 /\ pc # "classify") =>
        /\ retval = "False"
        /\ raisedAt = << >>
        /\ exc = "none"
        /\ msg_type = NoInt
        /\ msg_length = NoInt
        /\ magic_cookie = NoInt

C5_Witness ==
    /\ Got /\ Len(response) = 19 /\ pc = "done"
    /\ response[1] = 1 /\ response[2] = 1
    /\ retval = "False"

(* C6: after a receive timeout nothing more is sent or received, and the   *)
(* invocation returns False and exits with code 1.                         *)
C6_TimeoutTerminal ==
    [][ /\ TimedOut => /\ sendCalls' = sendCalls
                      /\ sentDatagrams' = sentDatagrams
                      /\ recvCalls' = recvCalls
        /\ (TimedOut' /\ Returned') => (retval' = "False")
        /\ (TimedOut' /\ pc' = "done") => (exitCode' = 1) ]_vars

C6_Witness == pc = "done" /\ TimedOut /\ exitCode = 1 /\ recvCalls = 1

(* C7: the request is exactly 20 bytes, starts with 00 01 00 00 21 12 A4   *)
(* 42 and carries the transaction ID unchanged in bytes 8-19.              *)
C7_RequestLayout ==
    request # NoBytes =>
        /\ Len(request) = 20
        /\ SubSeq(request, 1, 8) = <<0, 1, 0, 0, 33, 18, 164, 66>>
        /\ SubSeq(request, 9, 20) = txid

C7_Witness == request # NoBytes /\ txid = TxnId(NumTxnIds) /\ pc = "sendto"

(* C8: at most one datagram is sent and one receive performed, the receive *)
(* only after a send that raised nothing, and a True verdict only after a  *)
(* request was sent and a datagram received.                               *)
C8_OneRoundTrip ==
    /\ sendCalls <= 1
    /\ sentDatagrams <= 1
    /\ recvCalls <= 1
    /\ recvCalls = 1 => (sendCalls = 1 /\ sentDatagrams = 1
                         /\ ~RaisedIn("sendto"))
    /\ Got => recvCalls = 1
    /\ retval = "True" => (sentDatagrams = 1 /\ recvCalls = 1 /\ Got)

C8_Witness == pc = "done" /\ retval = "True" /\ sentDatagrams = 1 /\ Got

(* C9: for a response of at least 20 bytes the verdict is the one every    *)
(* response that differs from it in the message length and the transaction *)
(* ID only would get; type 0x0101 gives True with or without the echo.     *)
C9_EchoIrrelevant ==
    Classified =>
        /\ \A l \in LenBytes, x \in RespTxnIds :
             ClassifyResponse(WithLenAndTxn(response, l, x)).succeeded
                 <=> (retval = "True")
        /\ (UnpackH(Slice(response, 0, 2)) = BINDING_SUCCESS
              /\ Slice(response, 8, 20) # txid) => retval = "True"

C9_Witness ==
    /\ Classified
    /\ response[1] = 1 /\ response[2] = 1
    /\ Slice(response, 8, 20) # txid
    /\ Slice(response, 2, 4) = <<0, 12>>
    /\ retval = "True"

(* position of a statement in the straight-line flow of the program *)
Rank(p) ==
    CASE p = "main"       -> 0
      [] p = "socket"     -> 1
      [] p = "settimeout" -> 2
      [] p = "build"      -> 3
      [] p = "sendto"     -> 4
      [] p = "recvfrom"   -> 5
      [] p = "classify"   -> 6
      [] p = "timeout"    -> 6
      [] p = "finally"    -> 7
      [] p = "except"     -> 8
      [] p = "return"     -> 9
      [] p = "exit"       -> 10
      [] p = "done"       -> 11

(* C10: every run reaches process exit with exit code 0 or 1, and every    *)
(* step moves forward in the program: nothing leads back to the send or    *)
(* the receive.                                                            *)
C10_Terminates ==
    /\ <>(pc = "done" /\ exitCode \in {0, 1})
    /\ [][Rank(pc') > Rank(pc)]_vars

C10_Witness ==
    pc = "done" /\ exitCode \in {0, 1} /\ sendCalls = 1 /\ recvCalls = 1

====
